---- MODULE Spec2Model ----
(***************************************************************************)
(* Model of the snake-api Flask service (src/app.py): one global game      *)
(* session, mutated by GET requests /game.svg, /move/<direction>, /status  *)
(* and /reset.                                                             *)
(*                                                                         *)
(* Cells are pairs <<x, y>>; the snake is a sequence of cells, head first. *)
(* A timestamp (datetime.now()) is the value of a request counter `clock`. *)
(* random.randint is an input: the cells it may produce are restricted to  *)
(* a window at the board centre (FoodSpan) to keep the model finite.       *)
(***************************************************************************)
EXTENDS Integers, Sequences, FiniteSets, TLC

VARIABLES game_state, clock, request, response, heap, threads, origin,
          food_call

vars == <<game_state, clock, request, response, heap, threads, origin,
          food_call>>

\* the variables only the threaded server (SpecThreads) and the loop of
\* generate_food (SpecFood) use
tvars == <<heap, threads, origin, food_call>>

----------------------------------------------------------------------------
(* Program constants *)

CELL_SIZE == 20

BOARD_WIDTH == 20

BOARD_HEIGHT == 15

COLORS == [bg |-> "#0d1117", snake |-> "#238636", head |-> "#2ea043",
           food |-> "#da3633", grid |-> "#21262d"]

(* Bounds of the model *)

\* number of requests handled in one behaviour (the clock stops there)
MaxTime == 6

\* random.randint samples are the board centre and the FoodSpan values after
\* it, on each axis
FoodSpan == 1

\* the move_snake harness starts from snakes whose head is within Edge cells
\* of a corner of the board (and from the initial snake)
Edge == 1

----------------------------------------------------------------------------
(* Values *)

\* the module-level `game_state = None`
None == [none |-> TRUE]

Dirs == {"up", "down", "left", "right"}

\* direction arguments a /move/<direction> URL can carry: the four valid
\* ones and a representative of everything else
DirArgs == Dirs \cup {"jump"}

\* ?redirect= query parameter of /reset: absent or present
RedirectArgs == {"", "/game.svg"}

Max(a, b) == IF a >= b THEN a ELSE b

\* Python's `cell in snake`
In(cell, snake) == \E i \in 1..Len(snake) : snake[i] = cell

\* values random.randint(0, n - 1) yields in the model: n // 2 and the
\* FoodSpan values after it
randint(n) == {v \in 0..(n - 1) : v - (n \div 2) \in 0..FoodSpan}

----------------------------------------------------------------------------
(* Core functions *)

get_initial_state(now) ==
    [board |-> <<BOARD_WIDTH, BOARD_HEIGHT>>,
     snake |-> << <<10, 7>>, <<9, 7>>, <<8, 7>> >>,
     dir |-> "right",
     food |-> <<15, 7>>,
     score |-> 0,
     game_over |-> FALSE,
     last_move |-> now]

\* mutant of generate_food: the sampled cell is returned without the
\* `not in snake` test
generate_food_Unchecked(snake, board_w, board_h) ==
    randint(board_w) \X randint(board_h)

\* the cells generate_food can return: the loop resamples until the cell is
\* not in the snake, so it returns exactly the sampled cells outside the snake
generate_food(snake, board_w, board_h) ==
    {c \in randint(board_w) \X randint(board_h) : ~In(c, snake)}

valid_moves(dir) ==
    [up |-> dir /= "down", down |-> dir /= "up",
     left |-> dir /= "right", right |-> dir /= "left"]

\* mutant of update_dir: a reversal is accepted like any other direction
update_dir_AcceptReverse(dir, direction) ==
    IF direction \in DOMAIN valid_moves(dir) THEN direction ELSE dir

\* lines 59-60: the direction stored after the reversal check
update_dir(dir, direction) ==
    IF direction \in DOMAIN valid_moves(dir) /\ valid_moves(dir)[direction]
    THEN direction ELSE dir

\* mutant of move_head: up and down are exchanged
move_head_UpDownSwapped(head, dir) ==
    IF dir = "up" THEN <<head[1], head[2] + 1>>
    ELSE IF dir = "down" THEN <<head[1], head[2] - 1>>
    ELSE IF dir = "left" THEN <<head[1] - 1, head[2]>>
    ELSE IF dir = "right" THEN <<head[1] + 1, head[2]>>
    ELSE head

\* lines 63-70: the head moved one cell in direction dir
move_head(head, dir) ==
    IF dir = "up" THEN <<head[1], head[2] - 1>>
    ELSE IF dir = "down" THEN <<head[1], head[2] + 1>>
    ELSE IF dir = "left" THEN <<head[1] - 1, head[2]>>
    ELSE IF dir = "right" THEN <<head[1] + 1, head[2]>>
    ELSE head

\* mutant of collides: the bounds are tested with > instead of >=
collides_OffByOne(head, snake) ==
    \/ head[1] < 0 \/ head[1] > BOARD_WIDTH
    \/ head[2] < 0 \/ head[2] > BOARD_HEIGHT
    \/ \E i \in 1..Len(snake) : snake[i] = head

\* mutant of collides: the tail, which is about to move away, does not count
collides_IgnoreTail(head, snake) ==
    \/ head[1] < 0 \/ head[1] >= BOARD_WIDTH
    \/ head[2] < 0 \/ head[2] >= BOARD_HEIGHT
    \/ \E i \in 1..(Len(snake) - 1) : snake[i] = head

\* mutant of collides: the walls are not tested
collides_NoWalls(head, snake) ==
    \E i \in 1..Len(snake) : snake[i] = head

\* mutant of collides: the `head in snake` test is missing
collides_WallsOnly(head, snake) ==
    \/ head[1] < 0 \/ head[1] >= BOARD_WIDTH
    \/ head[2] < 0 \/ head[2] >= BOARD_HEIGHT

\* lines 73-75
collides(head, snake) ==
    \/ head[1] < 0 \/ head[1] >= BOARD_WIDTH
    \/ head[2] < 0 \/ head[2] >= BOARD_HEIGHT
    \/ In(head, snake)

\* mutant of grow: the score counts food items, not points
grow_ScoreByOne(state, dir, grown, now) ==
    {[state EXCEPT !.dir = dir, !.score = @ + 1, !.food = f,
                   !.snake = grown, !.last_move = now] :
        f \in {c \in randint(BOARD_WIDTH) \X randint(BOARD_HEIGHT) :
                 \A i \in 1..Len(grown) : grown[i] /= c}}

\* mutant of grow: the tail is removed although the food was eaten
grow_DropTail(state, dir, grown, now) ==
    {[state EXCEPT !.dir = dir, !.score = @ + 10, !.food = f,
                   !.snake = SubSeq(grown, 1, Len(grown) - 1),
                   !.last_move = now] :
        f \in {c \in randint(BOARD_WIDTH) \X randint(BOARD_HEIGHT) :
                 \A i \in 1..Len(grown) : grown[i] /= c}}

\* lines 84-85, 89-90: the head was on the food; one state per new food cell
grow(state, dir, grown, now) ==
    {[state EXCEPT !.dir = dir, !.score = @ + 10, !.food = f,
                   !.snake = grown, !.last_move = now] :
        f \in generate_food(grown, BOARD_WIDTH, BOARD_HEIGHT)}

\* mutant of slide: the tail is not removed
slide_KeepTail(state, dir, grown, now) ==
    [state EXCEPT !.dir = dir, !.snake = grown, !.last_move = now]

\* lines 87, 89-90: the tail is removed
slide(state, dir, grown, now) ==
    [state EXCEPT !.dir = dir, !.snake = SubSeq(grown, 1, Len(grown) - 1),
                  !.last_move = now]

\* mutant of move_snake: the game_over test of lines 45-46 is missing
move_snake_NoGameOverTest(state, direction, now) ==
    LET snake == state.snake
        dir == update_dir(state.dir, direction)
        head == move_head(snake[1], dir)
        grown == <<head>> \o snake
    IN  IF collides(head, snake)
        THEN {[state EXCEPT !.dir = dir, !.game_over = TRUE]}
        ELSE IF head = state.food
        THEN grow(state, dir, grown, now)
        ELSE {slide(state, dir, grown, now)}

\* the set of states move_snake can return (one per outcome of generate_food)
move_snake(state, direction, now) ==
    IF state.game_over THEN {state}
    ELSE LET snake == state.snake
             dir == update_dir(state.dir, direction)
             head == move_head(snake[1], dir)
             grown == <<head>> \o snake
         IN  IF collides(head, snake)
             THEN {[state EXCEPT !.dir = dir, !.game_over = TRUE]}
             ELSE IF head = state.food
             THEN grow(state, dir, grown, now)
             ELSE {slide(state, dir, grown, now)}

\* opacity of segment i (0-based), in hundredths: max(0.6, 1.0 - i * 0.05)
opacity(i) == IF i = 0 THEN 100 ELSE Max(60, 100 - i * 5)

\* mutant of render_svg: the game-over branch of lines 126-131 is missing
render_svg_NoOverlay(state) ==
    LET width == BOARD_WIDTH * CELL_SIZE
        height == BOARD_HEIGHT * CELL_SIZE
        bg == << [tag |-> "rect", x |-> 0, y |-> 0, width |-> width,
                  height |-> height, fill |-> COLORS.bg, opacity |-> 100] >>
        vlines == [i \in 1..(BOARD_WIDTH + 1) |->
                     [tag |-> "line", x1 |-> (i - 1) * CELL_SIZE, y1 |-> 0,
                      x2 |-> (i - 1) * CELL_SIZE, y2 |-> height,
                      stroke |-> COLORS.grid, opacity |-> 10]]
        hlines == [i \in 1..(BOARD_HEIGHT + 1) |->
                     [tag |-> "line", x1 |-> 0, y1 |-> (i - 1) * CELL_SIZE,
                      x2 |-> width, y2 |-> (i - 1) * CELL_SIZE,
                      stroke |-> COLORS.grid, opacity |-> 10]]
        food == << [tag |-> "rect", x |-> state.food[1] * CELL_SIZE + 2,
                    y |-> state.food[2] * CELL_SIZE + 2,
                    width |-> CELL_SIZE - 4, height |-> CELL_SIZE - 4,
                    fill |-> COLORS.food, opacity |-> 100] >>
        segs == [i \in 1..Len(state.snake) |->
                     [tag |-> "rect", x |-> state.snake[i][1] * CELL_SIZE + 1,
                      y |-> state.snake[i][2] * CELL_SIZE + 1,
                      width |-> CELL_SIZE - 2, height |-> CELL_SIZE - 2,
                      fill |-> IF i = 1 THEN COLORS.head ELSE COLORS.snake,
                      opacity |-> opacity(i - 1)]]
        tail == << [tag |-> "text", x |-> 10, y |-> height - 10,
                    anchor |-> "start",
                    text |-> <<"Score: ", state.score>>] >>
    IN  bg \o vlines \o hlines \o food \o segs \o tail

\* the SVG document as the sequence of its elements
render_svg(state) ==
    LET width == BOARD_WIDTH * CELL_SIZE
        height == BOARD_HEIGHT * CELL_SIZE
        bg == << [tag |-> "rect", x |-> 0, y |-> 0, width |-> width,
                  height |-> height, fill |-> COLORS.bg, opacity |-> 100] >>
        vlines == [i \in 1..(BOARD_WIDTH + 1) |->
                     [tag |-> "line", x1 |-> (i - 1) * CELL_SIZE, y1 |-> 0,
                      x2 |-> (i - 1) * CELL_SIZE, y2 |-> height,
                      stroke |-> COLORS.grid, opacity |-> 10]]
        hlines == [i \in 1..(BOARD_HEIGHT + 1) |->
                     [tag |-> "line", x1 |-> 0, y1 |-> (i - 1) * CELL_SIZE,
                      x2 |-> width, y2 |-> (i - 1) * CELL_SIZE,
                      stroke |-> COLORS.grid, opacity |-> 10]]
        food == << [tag |-> "rect", x |-> state.food[1] * CELL_SIZE + 2,
                    y |-> state.food[2] * CELL_SIZE + 2,
                    width |-> CELL_SIZE - 4, height |-> CELL_SIZE - 4,
                    fill |-> COLORS.food, opacity |-> 100] >>
        segs == [i \in 1..Len(state.snake) |->
                     [tag |-> "rect", x |-> state.snake[i][1] * CELL_SIZE + 1,
                      y |-> state.snake[i][2] * CELL_SIZE + 1,
                      width |-> CELL_SIZE - 2, height |-> CELL_SIZE - 2,
                      fill |-> IF i = 1 THEN COLORS.head ELSE COLORS.snake,
                      opacity |-> opacity(i - 1)]]
        tail == IF state.game_over
                THEN << [tag |-> "rect", x |-> 0, y |-> 0, width |-> width,
                         height |-> height, fill |-> "black", opacity |-> 70],
                        [tag |-> "text", x |-> width \div 2,
                         y |-> height \div 2 - 20, anchor |-> "middle",
                         text |-> <<"GAME OVER">>],
                        [tag |-> "text", x |-> width \div 2,
                         y |-> height \div 2 + 10, anchor |-> "middle",
                         text |-> <<"Score: ", state.score>>],
                        [tag |-> "text", x |-> width \div 2,
                         y |-> height \div 2 + 35, anchor |-> "middle",
                         text |-> <<"Click any direction to restart">>] >>
                ELSE << [tag |-> "text", x |-> 10, y |-> height - 10,
                         anchor |-> "start",
                         text |-> <<"Score: ", state.score>>] >>
    IN  bg \o vlines \o hlines \o food \o segs \o tail

----------------------------------------------------------------------------
(* Request handlers.  Each handler is one action; `now` is the time of the *)
(* request.                                                                *)

\* lines 143-144, 154-155, 181-182: lazy creation of the session
ensure_state(state, now) ==
    IF state = None THEN get_initial_state(now) ELSE state

\* lines 158-161: the states the session can be in after the game-over reset
restart(state, direction, now) ==
    IF state.game_over
    THEN {[get_initial_state(now) EXCEPT !.dir = direction, !.food = f] :
            f \in generate_food(get_initial_state(now).snake,
                                BOARD_WIDTH, BOARD_HEIGHT)}
    ELSE {state}

get_game_svg ==
    /\ clock < MaxTime
    /\ clock' = clock + 1
    /\ game_state' = ensure_state(game_state, clock')
    /\ request' = [op |-> "game.svg"]
    /\ response' = [code |-> 200, svg |-> render_svg(game_state')]
    /\ UNCHANGED tvars

\* mutant of move_game_states: the validation of lines 164-165 is missing
move_game_states_NoValidation(state, direction, now) ==
    UNION {move_snake(s1, direction, now) :
             s1 \in restart(ensure_state(state, now), direction, now)}

\* lines 154-168: the states the session can be in when move_game returns
move_game_states(state, direction, now) ==
    UNION {IF direction \notin Dirs THEN {s1}
           ELSE move_snake(s1, direction, now) :
             s1 \in restart(ensure_state(state, now), direction, now)}

move_game(direction) ==
    /\ clock < MaxTime
    /\ clock' = clock + 1
    /\ request' = [op |-> "move", direction |-> direction]
    /\ game_state' \in move_game_states(game_state, direction, clock')
    /\ response' = IF direction \notin Dirs
                   THEN [code |-> 400, error |-> "Invalid direction"]
                   ELSE [code |-> 200, success |-> TRUE,
                         direction |-> direction,
                         score |-> game_state'.score,
                         game_over |-> game_state'.game_over]
    /\ UNCHANGED tvars

get_status ==
    /\ clock < MaxTime
    /\ clock' = clock + 1
    /\ game_state' = ensure_state(game_state, clock')
    /\ request' = [op |-> "status"]
    /\ response' = [code |-> 200, score |-> game_state'.score,
                    direction |-> game_state'.dir,
                    game_over |-> game_state'.game_over,
                    last_move |-> game_state'.last_move,
                    snake_length |-> Len(game_state'.snake)]
    /\ UNCHANGED tvars

\* mutant of reset_game: a game in progress is not reset
reset_game_OnlyWhenOver(redirect_url) ==
    /\ clock < MaxTime
    /\ clock' = clock + 1
    /\ IF game_state /= None /\ ~game_state.game_over
       THEN game_state' = game_state
       ELSE \E f \in generate_food(get_initial_state(clock').snake,
                                   BOARD_WIDTH, BOARD_HEIGHT) :
              game_state' = [get_initial_state(clock') EXCEPT !.food = f]
    /\ request' = [op |-> "reset", redirect |-> redirect_url]
    /\ response' = IF redirect_url /= ""
                   THEN [code |-> 302, location |-> redirect_url]
                   ELSE [code |-> 200, success |-> TRUE,
                         message |-> "Game reset"]
    /\ UNCHANGED tvars

reset_game(redirect_url) ==
    /\ clock < MaxTime
    /\ clock' = clock + 1
    /\ \E f \in generate_food(get_initial_state(clock').snake,
                              BOARD_WIDTH, BOARD_HEIGHT) :
         game_state' = [get_initial_state(clock') EXCEPT !.food = f]
    /\ request' = [op |-> "reset", redirect |-> redirect_url]
    /\ response' = IF redirect_url /= ""
                   THEN [code |-> 302, location |-> redirect_url]
                   ELSE [code |-> 200, success |-> TRUE,
                         message |-> "Game reset"]
    /\ UNCHANGED tvars

\* no request handled yet
NoRequest == [op |-> "none"]

NoResponse == [code |-> 0]

\* requests are handled one at a time: no heap of shared objects, no threads
NoThreads ==
    /\ heap = <<>>
    /\ threads = <<>>
    /\ origin = None

\* generate_food is not modelled as a loop: no call in progress
NoFoodCall == food_call = None

\* module import leaves game_state = None (line 22); running the module as a
\* script creates the state with a generated food cell (lines 232-233)
Init ==
    /\ clock = 0
    /\ request = NoRequest
    /\ response = NoResponse
    /\ NoThreads
    /\ NoFoodCall
    /\ \/ game_state = None
       \/ \E f \in generate_food(get_initial_state(0).snake,
                                 BOARD_WIDTH, BOARD_HEIGHT) :
            game_state = [get_initial_state(0) EXCEPT !.food = f]

Next ==
    \/ get_game_svg
    \/ \E direction \in DirArgs : move_game(direction)
    \/ get_status
    \/ \E redirect_url \in RedirectArgs : reset_game(redirect_url)

Spec == Init /\ [][Next]_vars

----------------------------------------------------------------------------
(* Harness for move_snake as a function: it is called directly, any number *)
(* of times, on states the session can hand to it.                         *)

\* the reverse of a direction (the pairs excluded by valid_moves)
Opposite(dir) ==
    CASE dir = "up" -> "down"
      [] dir = "down" -> "up"
      [] dir = "left" -> "right"
      [] dir = "right" -> "left"

OnBoard(c) ==
    /\ 0 <= c[1] /\ c[1] < BOARD_WIDTH
    /\ 0 <= c[2] /\ c[2] < BOARD_HEIGHT

NearCorner(c) ==
    /\ c[1] < Edge \/ c[1] >= BOARD_WIDTH - Edge
    /\ c[2] < Edge \/ c[2] >= BOARD_HEIGHT - Edge

\* a straight snake of the initial length with head h, travelling in dir
StraightSnake(h, dir) ==
    << h, move_head(h, Opposite(dir)),
       move_head(move_head(h, Opposite(dir)), Opposite(dir)) >>

\* states move_snake is called on:
\*  - the state created at start-up or by /reset (generated food),
\*  - the state move_game builds after a game over (direction seeded with a
\*    valid argument, generated food),
\*  - a lazily created session (food still <<15, 7>>, score 0) whose snake
\*    has travelled to a corner of the board and runs straight
MoveStates ==
    {[get_initial_state(0) EXCEPT !.food = f] :
        f \in generate_food(get_initial_state(0).snake,
                            BOARD_WIDTH, BOARD_HEIGHT)}
    \cup UNION {restart([get_initial_state(0) EXCEPT !.game_over = TRUE], d, 0) :
                  d \in Dirs}
    \cup {[get_initial_state(0) EXCEPT !.snake = StraightSnake(h, d), !.dir = d] :
            <<h, d>> \in {<<c, e>> \in ((0..(BOARD_WIDTH - 1)) \X
                                           (0..(BOARD_HEIGHT - 1))) \X Dirs :
                            /\ NearCorner(c)
                            /\ \A i \in 1..3 : OnBoard(StraightSnake(c, e)[i])}}

InitMove ==
    /\ clock = 0
    /\ request = NoRequest
    /\ response = NoResponse
    /\ NoThreads
    /\ NoFoodCall
    /\ game_state \in MoveStates

\* game_state = move_snake(game_state, direction)
call_move_snake(direction) ==
    /\ clock < MaxTime
    /\ clock' = clock + 1
    /\ game_state' \in move_snake(game_state, direction, clock')
    /\ request' = [op |-> "move_snake", direction |-> direction]
    /\ response' = NoResponse
    /\ UNCHANGED tvars

NextMove == \E direction \in DirArgs : call_move_snake(direction)

SpecMove == InitMove /\ [][NextMove]_vars

----------------------------------------------------------------------------
(* The threaded server: app.run() serves every request on a thread of its  *)
(* own and the handlers take no lock.  Here the dict objects live in       *)
(* `heap`, game_state is a reference (None or [ref |-> index in heap]),    *)
(* and each of two threads handles one /move request, a statement at a     *)
(* time.  `origin` is the session state the two requests arrive at; the    *)
(* clock does not advance while they are handled.                          *)

Threads == {1, 2}

IdleFrame ==
    [pc |-> "idle", direction |-> "", state |-> None, snake |-> <<>>,
     head |-> <<>>, valid |-> FALSE, response |-> NoResponse]

\* session states the two requests can arrive at: not yet created, created
\* by an earlier request, and game over (the initial snake sent left into
\* its neck)
ThreadOrigins ==
    {None, get_initial_state(0),
     [get_initial_state(0) EXCEPT !.dir = "left", !.game_over = TRUE]}

InitThreads ==
    /\ clock = 0
    /\ request = NoRequest
    /\ response = NoResponse
    /\ origin \in ThreadOrigins
    /\ heap = IF origin = None THEN <<>> ELSE <<origin>>
    /\ game_state = IF origin = None THEN None ELSE [ref |-> 1]
    /\ threads = [t \in Threads |-> IdleFrame]
    /\ NoFoodCall

At(t, pc) == threads[t].pc = pc

\* an object no reference is left to is freed; its slot holds None
Collect(h, global, frames) ==
    [i \in DOMAIN h |->
        IF \/ global = [ref |-> i]
           \/ \E t \in Threads : frames[t].state = [ref |-> i]
        THEN h[i] ELSE None]

\* flask dispatches /move/<direction> to move_game on thread t;
\* line 154: if game_state is None
t_L154(t, direction) ==
    /\ At(t, "idle")
    /\ threads' = [threads EXCEPT
                     ![t].pc = IF game_state = None THEN "L155" ELSE "L158",
                     ![t].direction = direction]
    /\ UNCHANGED <<game_state, heap, origin, food_call, clock,
                 request, response>>

\* line 155: game_state = get_initial_state()
t_L155(t) ==
    /\ At(t, "L155")
    /\ game_state' = [ref |-> Len(heap) + 1]
    /\ threads' = [threads EXCEPT ![t].pc = "L158"]
    /\ heap' = Collect(Append(heap, get_initial_state(clock)),
                       game_state', threads')
    /\ UNCHANGED <<origin, food_call, clock,
                 request, response>>

\* line 158: if game_state.get('game_over')
t_L158(t) ==
    /\ At(t, "L158")
    /\ threads' = [threads EXCEPT
                     ![t].pc = IF heap[game_state.ref].game_over
                               THEN "L159" ELSE "L164"]
    /\ UNCHANGED <<game_state, heap, origin, food_call, clock,
                 request, response>>

\* line 159: game_state = get_initial_state()
t_L159(t) ==
    /\ At(t, "L159")
    /\ game_state' = [ref |-> Len(heap) + 1]
    /\ threads' = [threads EXCEPT ![t].pc = "L160"]
    /\ heap' = Collect(Append(heap, get_initial_state(clock)),
                       game_state', threads')
    /\ UNCHANGED <<origin, food_call, clock,
                 request, response>>

\* line 160: game_state['dir'] = direction
t_L160(t) ==
    /\ At(t, "L160")
    /\ heap' = [heap EXCEPT ![game_state.ref].dir = threads[t].direction]
    /\ threads' = [threads EXCEPT ![t].pc = "L161"]
    /\ UNCHANGED <<game_state, origin, food_call, clock,
                 request, response>>

\* line 161: game_state['food'] = generate_food(game_state['snake'], ...)
t_L161(t) ==
    /\ At(t, "L161")
    /\ \E f \in generate_food(heap[game_state.ref].snake,
                              BOARD_WIDTH, BOARD_HEIGHT) :
         heap' = [heap EXCEPT ![game_state.ref].food = f]
    /\ threads' = [threads EXCEPT ![t].pc = "L164"]
    /\ UNCHANGED <<game_state, origin, food_call, clock,
                 request, response>>

\* lines 164-168: reject the direction, or call move_snake(game_state, ...)
t_L164(t) ==
    /\ At(t, "L164")
    /\ threads' = IF threads[t].direction \notin Dirs
                  THEN [threads EXCEPT
                          ![t].pc = "done",
                          ![t].response = [code |-> 400,
                                           error |-> "Invalid direction"]]
                  ELSE [threads EXCEPT ![t].pc = "L45",
                                       ![t].state = game_state]
    /\ UNCHANGED <<game_state, heap, origin, food_call, clock,
                 request, response>>

\* lines 45-46: if state.get('game_over'): return state
t_L45(t) ==
    /\ At(t, "L45")
    /\ threads' = [threads EXCEPT
                     ![t].pc = IF heap[threads[t].state.ref].game_over
                               THEN "L168" ELSE "L48"]
    /\ UNCHANGED <<game_state, heap, origin, food_call, clock,
                 request, response>>

\* lines 48-49: snake = state['snake'][:]; head = snake[0][:]
t_L48(t) ==
    /\ At(t, "L48")
    /\ threads' = [threads EXCEPT
                     ![t].pc = "L52",
                     ![t].snake = heap[threads[t].state.ref].snake,
                     ![t].head = heap[threads[t].state.ref].snake[1]]
    /\ UNCHANGED <<game_state, heap, origin, food_call, clock,
                 request, response>>

\* lines 52-57: valid_moves = {...}
t_L52(t) ==
    /\ At(t, "L52")
    /\ LET vm == valid_moves(heap[threads[t].state.ref].dir)
       IN  threads' = [threads EXCEPT
                         ![t].pc = "L59",
                         ![t].valid = /\ threads[t].direction \in DOMAIN vm
                                      /\ vm[threads[t].direction]]
    /\ UNCHANGED <<game_state, heap, origin, food_call, clock,
                 request, response>>

\* lines 59-60: if direction in valid_moves and ...: state['dir'] = direction
t_L59(t) ==
    /\ At(t, "L59")
    /\ heap' = IF threads[t].valid
               THEN [heap EXCEPT ![threads[t].state.ref].dir = threads[t].direction]
               ELSE heap
    /\ threads' = [threads EXCEPT ![t].pc = "L63"]
    /\ UNCHANGED <<game_state, origin, food_call, clock,
                 request, response>>

\* lines 63-70: move head
t_L63(t) ==
    /\ At(t, "L63")
    /\ threads' = [threads EXCEPT
                     ![t].pc = "L73",
                     ![t].head = move_head(threads[t].head,
                                           heap[threads[t].state.ref].dir)]
    /\ UNCHANGED <<game_state, heap, origin, food_call, clock,
                 request, response>>

\* lines 73-80: on a collision set game_over and return, else insert the head
t_L73(t) ==
    /\ At(t, "L73")
    /\ IF collides(threads[t].head, threads[t].snake)
       THEN /\ heap' = [heap EXCEPT ![threads[t].state.ref].game_over = TRUE]
            /\ threads' = [threads EXCEPT ![t].pc = "L168"]
       ELSE /\ heap' = heap
            /\ threads' = [threads EXCEPT
                             ![t].pc = "L83",
                             ![t].snake = <<threads[t].head>> \o @]
    /\ UNCHANGED <<game_state, origin, food_call, clock,
                 request, response>>

\* lines 83, 86-87: if head == state['food'] ... else: snake.pop()
t_L83(t) ==
    /\ At(t, "L83")
    /\ threads' = IF threads[t].head = heap[threads[t].state.ref].food
                  THEN [threads EXCEPT ![t].pc = "L84"]
                  ELSE [threads EXCEPT
                          ![t].pc = "L89",
                          ![t].snake = SubSeq(@, 1, Len(@) - 1)]
    /\ UNCHANGED <<game_state, heap, origin, food_call, clock,
                 request, response>>

\* line 84: state['score'] += 10
t_L84(t) ==
    /\ At(t, "L84")
    /\ heap' = [heap EXCEPT ![threads[t].state.ref].score = @ + 10]
    /\ threads' = [threads EXCEPT ![t].pc = "L85"]
    /\ UNCHANGED <<game_state, origin, food_call, clock,
                 request, response>>

\* line 85: state['food'] = generate_food(snake, ...)
t_L85(t) ==
    /\ At(t, "L85")
    /\ \E f \in generate_food(threads[t].snake, BOARD_WIDTH, BOARD_HEIGHT) :
         heap' = [heap EXCEPT ![threads[t].state.ref].food = f]
    /\ threads' = [threads EXCEPT ![t].pc = "L89"]
    /\ UNCHANGED <<game_state, origin, food_call, clock,
                 request, response>>

\* line 89: state['snake'] = snake
t_L89(t) ==
    /\ At(t, "L89")
    /\ heap' = [heap EXCEPT ![threads[t].state.ref].snake = threads[t].snake]
    /\ threads' = [threads EXCEPT ![t].pc = "L90"]
    /\ UNCHANGED <<game_state, origin, food_call, clock,
                 request, response>>

\* lines 90-91: state['last_move'] = datetime.now().isoformat(); return state
t_L90(t) ==
    /\ At(t, "L90")
    /\ heap' = [heap EXCEPT ![threads[t].state.ref].last_move = clock]
    /\ threads' = [threads EXCEPT ![t].pc = "L168"]
    /\ UNCHANGED <<game_state, origin, food_call, clock,
                 request, response>>

\* line 168: game_state = <the state move_snake returned>
t_L168(t) ==
    /\ At(t, "L168")
    /\ game_state' = threads[t].state
    /\ threads' = [threads EXCEPT ![t].pc = "L170", ![t].state = None]
    /\ heap' = Collect(heap, game_state', threads')
    /\ UNCHANGED <<origin, food_call, clock,
                 request, response>>

\* lines 170-175: the JSON response, read off game_state
t_L170(t) ==
    /\ At(t, "L170")
    /\ threads' = [threads EXCEPT
                     ![t].pc = "done",
                     ![t].response =
                        [code |-> 200, success |-> TRUE,
                         direction |-> threads[t].direction,
                         score |-> heap[game_state.ref].score,
                         game_over |-> heap[game_state.ref].game_over]]
    /\ UNCHANGED <<game_state, heap, origin, food_call, clock,
                 request, response>>

NextThreads ==
    \E t \in Threads :
        \/ \E direction \in DirArgs : t_L154(t, direction)
        \/ t_L155(t) \/ t_L158(t) \/ t_L159(t) \/ t_L160(t)
        \/ t_L161(t) \/ t_L164(t) \/ t_L45(t) \/ t_L48(t) \/ t_L52(t)
        \/ t_L59(t) \/ t_L63(t) \/ t_L73(t) \/ t_L83(t) \/ t_L84(t)
        \/ t_L85(t) \/ t_L89(t) \/ t_L90(t) \/ t_L168(t) \/ t_L170(t)

SpecThreads == InitThreads /\ [][NextThreads]_vars

----------------------------------------------------------------------------
(* generate_food as the loop it is: in each iteration a cell is sampled    *)
(* anywhere on the board (lines 38-39) and returned if it is not in the    *)
(* snake (lines 40-41).  The call is made on the snake of                  *)
(* a /reset or restart, on the grown snake of an eating move, and on       *)
(* snakes that fill the board up to MaxFree cells.                         *)

\* cells the longest snakes of SpecFood leave free
MaxFree == 1

\* a snake on every cell of the board: row by row, back and forth
FullSnake ==
    [k \in 1..(BOARD_WIDTH * BOARD_HEIGHT) |->
        LET y == (k - 1) \div BOARD_WIDTH
            r == (k - 1) % BOARD_WIDTH
        IN  <<IF y % 2 = 0 THEN r ELSE BOARD_WIDTH - 1 - r, y>>]

FoodCallSnakes ==
    {get_initial_state(0).snake,
     << <<11, 7>>, <<10, 7>>, <<9, 7>>, <<8, 7>> >>}
    \cup {SubSeq(FullSnake, 1 + free, Len(FullSnake)) : free \in 0..MaxFree}

InitFood ==
    /\ clock = 0
    /\ request = NoRequest
    /\ response = NoResponse
    /\ NoThreads
    /\ game_state = None
    /\ \E snake \in FoodCallSnakes :
         food_call = [pc |-> "loop", snake |-> snake, rejected |-> FALSE,
                      result |-> None]

\* mutant of gf_iteration: the test is inverted, a cell of the snake is
\* returned
gf_iteration_Inverted(x, y) ==
    /\ food_call.pc = "loop"
    /\ food_call' =
         IF \E i \in 1..Len(food_call.snake) : food_call.snake[i] = <<x, y>>
         THEN [food_call EXCEPT !.pc = "done", !.result = <<x, y>>]
         ELSE [food_call EXCEPT !.rejected = TRUE]
    /\ UNCHANGED <<game_state, clock, request, response, heap, threads,
                   origin>>

\* lines 38-41, one iteration of the loop: x and y are sampled, the cell is
\* returned if it is not in the snake
gf_iteration(x, y) ==
    /\ food_call.pc = "loop"
    /\ food_call' =
         IF ~In(<<x, y>>, food_call.snake)
         THEN [food_call EXCEPT !.pc = "done", !.result = <<x, y>>]
         ELSE [food_call EXCEPT !.rejected = TRUE]
    /\ UNCHANGED <<game_state, clock, request, response, heap, threads,
                   origin>>

\* an iteration whose sample falls on a cell outside the snake
gf_sample_free ==
    /\ food_call.pc = "loop"
    /\ \E x \in 0..(BOARD_WIDTH - 1), y \in 0..(BOARD_HEIGHT - 1) :
         gf_iteration(x, y)
    /\ food_call'.pc = "done"

NextFood ==
    \E x \in 0..(BOARD_WIDTH - 1), y \in 0..(BOARD_HEIGHT - 1) :
        gf_iteration(x, y)

\* uniform sampling does not avoid the free cells for ever
SpecFood ==
    /\ InitFood
    /\ [][NextFood]_vars
    /\ WF_vars(gf_sample_free)

----------------------------------------------------------------------------
(* Properties *)

Started == game_state /= None

\* the head move_snake computes for a call with this direction argument
NewHead(state, direction) ==
    move_head(state.snake[1], update_dir(state.dir, direction))

\* C1: a move request with a valid direction received while game_over is
\* true leaves the session active: game_over is false after the request.
C1_RestartLeavesActive ==
    [][(/\ Started
        /\ game_state.game_over
        /\ request'.op = "move"
        /\ request'.direction \in Dirs) => ~game_state'.game_over]_vars

\* a state without its timestamp
NoStamp(state) == [state EXCEPT !.last_move = 0]

\* the states the session is in after move_game(d1) and then move_game(d2),
\* each handled as a whole
InTurn(state, d1, d2) ==
    UNION {move_game_states(s, d2, 0) : s \in move_game_states(state, d1, 0)}

\* C2: concurrent move requests are serialized: when both have been
\* handled, the session is in a state that handling them one after the
\* other, in one of the two orders, produces (no update is lost).
C2_Serialized ==
    (\A t \in Threads : threads[t].pc = "done") =>
        NoStamp(heap[game_state.ref]) \in
            {NoStamp(s) : s \in
                InTurn(origin, threads[1].direction, threads[2].direction)
                \cup InTurn(origin, threads[2].direction, threads[1].direction)}

\* C3: the stored direction is always one of up, down, left, right.
C3_DirectionValid ==
    Started => game_state.dir \in Dirs

\* C4 as stated: the score is ten times (snake length minus one).
C4_ScoreLenMinusOne ==
    Started => (Len(game_state.snake) - 1) * 10 = game_state.score

\* C4 (amended): the score is ten times (snake length minus three), three
\* being the length of the initial snake.
C4_ScoreLenMinusThree ==
    Started => (Len(game_state.snake) - 3) * 10 = game_state.score

C4_Witness ==
    /\ Started
    /\ request.op = "move"
    /\ game_state.score = 10
    /\ Len(game_state.snake) = 4

\* C5: the food cell is never a cell of the snake.
C5_FoodNotInSnake ==
    Started => ~In(game_state.food, game_state.snake)

\* the food has been eaten and placed again twice
C5_Witness ==
    /\ Started
    /\ request.op = "move"
    /\ game_state.score = 20
    /\ ~In(game_state.food, game_state.snake)

\* C6: on a state that is not game over, move_snake with the reverse of the
\* current direction returns what move_snake with the current direction
\* returns (the same set of states, one per choice of new food cell).
C6_ReverseIgnored ==
    (Started /\ ~game_state.game_over /\ game_state.dir \in Dirs) =>
        move_snake(game_state, Opposite(game_state.dir), clock + 1)
          = move_snake(game_state, game_state.dir, clock + 1)

\* a call with the reverse of the direction has moved the snake and kept
\* the direction
C6_Witness ==
    /\ request.op = "move_snake"
    /\ ~game_state.game_over
    /\ game_state.dir \in Dirs
    /\ request.direction = Opposite(game_state.dir)
    /\ game_state.last_move = clock

\* C7: a move_snake call that does not collide either keeps length, food
\* and score, or adds one segment and 10 points and leaves a food cell
\* outside the new snake; never both.
C7_MoveOrGrow ==
    [][(/\ request'.op = "move_snake"
        /\ ~game_state.game_over
        /\ ~game_state'.game_over) =>
         LET same == /\ Len(game_state'.snake) = Len(game_state.snake)
                     /\ game_state'.food = game_state.food
                     /\ game_state'.score = game_state.score
             ate == /\ Len(game_state'.snake) = Len(game_state.snake) + 1
                    /\ game_state'.score = game_state.score + 10
                    /\ ~In(game_state'.food, game_state'.snake)
         IN  (same \/ ate) /\ ~(same /\ ate)]_vars

\* a call that ate the food
C7_Witness ==
    /\ request.op = "move_snake"
    /\ ~game_state.game_over
    /\ game_state.last_move = clock
    /\ game_state.score = 10
    /\ game_state.snake[1] /= game_state.food

\* C8: move_snake on a game-over state returns the state with every field
\* as it was, whatever the direction and however often it is called.
C8_GameOverFrozen ==
    [][(request'.op = "move_snake" /\ game_state.game_over) =>
         game_state' = game_state]_vars

\* the last two calls both left last_move alone: the second one was made on
\* a game-over state
C8_Witness ==
    /\ request.op = "move_snake"
    /\ game_state.game_over
    /\ game_state.last_move + 2 <= clock

\* C9: a call whose new head has x = -1, x = width, y = -1 or y = height
\* sets game_over and leaves snake, food and score as they were.
C9_WallCollision ==
    [][(/\ request'.op = "move_snake"
        /\ ~game_state.game_over
        /\ LET head == NewHead(game_state, request'.direction)
           IN  \/ head[1] = -1 \/ head[1] = BOARD_WIDTH
               \/ head[2] = -1 \/ head[2] = BOARD_HEIGHT) =>
         /\ game_state'.game_over
         /\ game_state'.snake = game_state.snake
         /\ game_state'.food = game_state.food
         /\ game_state'.score = game_state.score]_vars

\* a call has run the head into a wall
C9_Witness ==
    /\ request.op = "move_snake"
    /\ game_state.game_over
    /\ game_state.last_move + 1 = clock
    /\ ~OnBoard(move_head(game_state.snake[1], game_state.dir))

\* C10: a call whose new head is a cell of the snake as it is before the
\* call (the tail cell included) sets game_over and leaves snake, food and
\* score as they were.
C10_SelfCollision ==
    [][(/\ request'.op = "move_snake"
        /\ ~game_state.game_over
        /\ In(NewHead(game_state, request'.direction), game_state.snake)) =>
         /\ game_state'.game_over
         /\ game_state'.snake = game_state.snake
         /\ game_state'.food = game_state.food
         /\ game_state'.score = game_state.score]_vars

\* a call has run the head into the cell of the tail
C10_Witness ==
    /\ request.op = "move_snake"
    /\ game_state.game_over
    /\ game_state.last_move + 1 = clock
    /\ Len(game_state.snake) >= 4
    /\ move_head(game_state.snake[1], game_state.dir)
         = game_state.snake[Len(game_state.snake)]

\* C11: a move request with an unrecognized direction is answered with the
\* error response and move_snake is not applied: the snake, score and
\* game_over flag are those of the state before the request or, when that
\* state was missing or game over, those of a freshly initialized state.
C11_InvalidRejected ==
    [][(request'.op = "move" /\ request'.direction \notin Dirs) =>
         /\ response' = [code |-> 400, error |-> "Invalid direction"]
         /\ IF Started /\ ~game_state.game_over
            THEN /\ game_state'.snake = game_state.snake
                 /\ game_state'.food = game_state.food
                 /\ game_state'.score = game_state.score
                 /\ game_state'.game_over = game_state.game_over
                 /\ game_state'.last_move = game_state.last_move
            ELSE /\ game_state'.snake = << <<10, 7>>, <<9, 7>>, <<8, 7>> >>
                 /\ game_state'.score = 0
                 /\ ~game_state'.game_over
                 /\ game_state'.last_move = clock']_vars

\* an unrecognized direction was rejected in a game in progress
C11_Witness ==
    /\ Started
    /\ request.op = "move"
    /\ request.direction \notin Dirs
    /\ response.code = 400
    /\ game_state.score = 10
    /\ ~game_state.game_over

\* C12: a reset request, whatever the state it is issued in, leaves the
\* initial snake, direction right, score 0, game_over false and a food cell
\* on the board and off the snake.
C12_ResetInitializes ==
    [][(request'.op = "reset") =>
         /\ game_state'.snake = << <<10, 7>>, <<9, 7>>, <<8, 7>> >>
         /\ game_state'.dir = "right"
         /\ game_state'.score = 0
         /\ ~game_state'.game_over
         /\ OnBoard(game_state'.food)
         /\ ~In(game_state'.food, game_state'.snake)]_vars

\* a reset late in a session (a game can be over from the fourth request on)
C12_Witness ==
    /\ Started
    /\ request.op = "reset"
    /\ clock >= 5
    /\ game_state.score = 0
    /\ game_state.snake[1] = <<10, 7>>

\* C13: while game_over is false, every snake cell (x, y) has 0 <= x < 20
\* and 0 <= y < 15.
C13_SnakeOnBoard ==
    (Started /\ ~game_state.game_over) =>
        \A i \in 1..Len(game_state.snake) :
            /\ 0 <= game_state.snake[i][1] /\ game_state.snake[i][1] < 20
            /\ 0 <= game_state.snake[i][2] /\ game_state.snake[i][2] < 15

\* a call has moved the head along the right wall
C13_Witness ==
    /\ request.op = "move_snake"
    /\ ~game_state.game_over
    /\ game_state.last_move = clock
    /\ game_state.snake[1][1] = 19
    /\ game_state.dir \in {"up", "down"}

\* C14: in a state that is not game over, the state move_game builds when
\* it restarts a finished game included, no valid direction makes
\* move_snake compute a new head equal to the second segment.
C14_NeverIntoNeck ==
    Started =>
        \A d \in Dirs :
            \A s \in restart(game_state, d, clock + 1) :
                ~s.game_over => NewHead(s, d) /= s.snake[2]

\* C15: a move request with an unrecognized direction leaves every field
\* of the game state as it was, game over or not.
C15_InvalidLeavesState ==
    [][(Started /\ request'.op = "move" /\ request'.direction \notin Dirs) =>
         game_state' = game_state]_vars

\* C16: no two segments of the snake occupy the same cell.
C16_NoDuplicates ==
    Started =>
        \A i, j \in 1..Len(game_state.snake) :
            i /= j => game_state.snake[i] /= game_state.snake[j]

\* a call has moved a snake of five segments, long enough to bite itself
\* elsewhere than in the tail
C16_Witness ==
    /\ request.op = "move_snake"
    /\ ~game_state.game_over
    /\ game_state.last_move = clock
    /\ Len(game_state.snake) >= 5
    /\ game_state.score = 20

\* the cell next to c in direction dir: up is y - 1, down y + 1, left x - 1,
\* right x + 1
Neighbour(c, dir) ==
    CASE dir = "up" -> <<c[1], c[2] - 1>>
      [] dir = "down" -> <<c[1], c[2] + 1>>
      [] dir = "left" -> <<c[1] - 1, c[2]>>
      [] dir = "right" -> <<c[1] + 1, c[2]>>

\* three moves right from the initial state (food at <<15, 7>>): the heads
\* are <<11, 7>>, <<12, 7>>, <<13, 7>>, the length stays 3 and the score 0
ThreeMovesRight ==
    LET S1 == move_snake(get_initial_state(0), "right", 1)
        S2 == UNION {move_snake(s, "right", 2) : s \in S1}
        S3 == UNION {move_snake(s, "right", 3) : s \in S2}
    IN  /\ {<<s.snake, s.score>> : s \in S1}
             = {<< << <<11, 7>>, <<10, 7>>, <<9, 7>> >>, 0 >>}
        /\ {<<s.snake, s.score>> : s \in S2}
             = {<< << <<12, 7>>, <<11, 7>>, <<10, 7>> >>, 0 >>}
        /\ {<<s.snake, s.score>> : s \in S3}
             = {<< << <<13, 7>>, <<12, 7>>, <<11, 7>> >>, 0 >>}

\* C17: a move that neither collides nor lands on the food leaves the new
\* head followed by the old snake without its last segment, and the score
\* as it was; from the initial state three moves right give the heads
\* [11,7], [12,7], [13,7] with score 0.
C17_PureTranslation ==
    [][/\ ThreeMovesRight
       /\ (/\ Started
           /\ ~game_state.game_over
           /\ request'.op = "move"
           /\ request'.direction \in Dirs
           /\ ~game_state'.game_over
           /\ game_state'.snake[1] /= game_state.food) =>
            /\ game_state'.snake =
                 <<Neighbour(game_state.snake[1], game_state'.dir)>>
                   \o SubSeq(game_state.snake, 1, Len(game_state.snake) - 1)
            /\ game_state'.score = game_state.score]_vars

\* the third move right of a session created by its first request
C17_Witness ==
    /\ Started
    /\ request = [op |-> "move", direction |-> "right"]
    /\ clock = 3
    /\ game_state.last_move = 3
    /\ game_state.food = <<15, 7>>
    /\ game_state.snake = << <<13, 7>>, <<12, 7>>, <<11, 7>> >>
    /\ game_state.score = 0

\* C18: the snake has at least three segments and the score is
\* 10 * (len(snake) - 3), a non-negative multiple of 10: ten points for
\* every segment grown since the state was initialized.
C18_ScoreCountsGrowth ==
    Started =>
        /\ Len(game_state.snake) >= 3
        /\ game_state.score = 10 * (Len(game_state.snake) - 3)
        /\ game_state.score >= 0
        /\ game_state.score % 10 = 0

\* the food has been eaten twice since the state was initialized
C18_Witness ==
    /\ Started
    /\ request.op = "move"
    /\ game_state.last_move = clock
    /\ game_state.score = 20
    /\ Len(game_state.snake) = 5

\* the full-canvas overlay rectangle of line 127
IsOverlay(e) ==
    /\ e.tag = "rect"
    /\ e.fill = "black"
    /\ <<e.x, e.y, e.width, e.height>> = <<0, 0, 400, 300>>

\* the "GAME OVER" text of line 128
IsGameOverText(e) ==
    /\ e.tag = "text"
    /\ Len(e.text) = 1
    /\ e.text[1] = "GAME OVER"

\* the score readout at the bottom left of line 134
IsScoreReadout(e) ==
    /\ e.tag = "text"
    /\ <<e.x, e.y>> = <<10, 290>>
    /\ Len(e.text) = 2
    /\ e.text[1] = "Score: "

\* C20: rendering leaves every field of the game state as it was; the
\* document has the overlay rectangle and the "GAME OVER" text and no
\* bottom-left score readout when game_over is true, and the bottom-left
\* score readout and neither overlay nor "GAME OVER" text when it is false.
C20_RenderByGameOver ==
    [][(request'.op = "game.svg") =>
         LET svg == response'.svg
             overlay == \E i \in 1..Len(svg) : IsOverlay(svg[i])
             text == \E i \in 1..Len(svg) : IsGameOverText(svg[i])
             readout == \E i \in 1..Len(svg) : IsScoreReadout(svg[i])
         IN  /\ Started => game_state' = game_state
             /\ IF game_state'.game_over
                THEN overlay /\ text /\ ~readout
                ELSE readout /\ ~overlay /\ ~text]_vars

\* a finished game has been rendered
C20_Witness ==
    /\ Started
    /\ request.op = "game.svg"
    /\ game_state.game_over
    /\ \E i \in 1..Len(response.svg) : IsGameOverText(response.svg[i])

\* some cell of the board is not in the snake (whose cells are on the board)
HasFreeCell(snake) ==
    Cardinality({snake[i] : i \in 1..Len(snake)}) < BOARD_WIDTH * BOARD_HEIGHT

\* C19: with a free cell on the board, generate_food eventually returns
\* (sampling being fair), and what it returns is a free cell of the board;
\* with the snake on every cell it never returns.
C19_FoodTermination ==
    /\ [](HasFreeCell(food_call.snake) => <>(food_call.pc = "done"))
    /\ [](food_call.pc = "done" =>
            /\ OnBoard(food_call.result)
            /\ ~In(food_call.result, food_call.snake))
    /\ [](~HasFreeCell(food_call.snake) => food_call.pc /= "done")

\* the only free cell was returned after a sample had been rejected
C19_Witness ==
    /\ food_call /= None
    /\ food_call.pc = "done"
    /\ food_call.rejected
    /\ Len(food_call.snake) = BOARD_WIDTH * BOARD_HEIGHT - 1

====
